---- MODULE Spec2Model ----
(***************************************************************************)
(* Model of the fixed-income library: src/library/pricing.py and           *)
(* src/library/yield.py.                                                    *)
(*                                                                         *)
(* The library is a set of pure functions.  The state of the model is the  *)
(* last call made to it: which entry point (fn), its arguments (args),     *)
(* what the call produced (out) and what it printed (console).  One action *)
(* per entry point draws the arguments from bounded sets and applies the   *)
(* function as the source computes it.                                     *)
(*                                                                         *)
(* Numbers.  The source computes in IEEE doubles.  The model computes in   *)
(* exact rationals <<n, d>> (d > 0, lowest terms); money rounded by        *)
(* np.round(x, 2) is a whole number of cents over 100, rounded half to     *)
(* even as np.round does.  0/0 is the value NaN, as numpy produces it.     *)
(* Powers                                                                  *)
(* with an integer exponent are exact (big naturals in base 10^4, since    *)
(* (1+y)^n leaves 32 bits at once); the settlement price, whose exponents  *)
(* are fractional, is kept as the sum of its terms amt/(1+y)^exp.          *)
(***************************************************************************)
EXTENDS Integers, Sequences, FiniteSets, TLC

-----------------------------------------------------------------------------
(* Bounds of the model *)

\* the solver's grid np.arange(.01, 100, .01) has 9,999 points; the model
\* evaluates its first GridLen points (grid values 0.01 .. GridLen/100)
GridLen == 104
\* tenors 1..MaxTenor (years to maturity)
MaxTenor == 2
\* calendar years FirstYear .. FirstYear + YearSpan - 1 for the two dates
YearSpan == 2

-----------------------------------------------------------------------------
(* Exact rationals *)

RECURSIVE GCD(_, _)
GCD(a, b) == IF b = 0 THEN a ELSE GCD(b, a % b)

Abs(x) == IF x < 0 THEN -x ELSE x

\* n/d in lowest terms with a positive denominator
Rat(n, d) ==
  LET g == GCD(Abs(n), Abs(d))
      s == IF d < 0 THEN -1 ELSE 1
  IN <<s * (n \div g), s * (d \div g)>>

RInt(k) == <<k, 1>>
RAdd(x, y) == Rat(x[1] * y[2] + y[1] * x[2], x[2] * y[2])
RSub(x, y) == Rat(x[1] * y[2] - y[1] * x[2], x[2] * y[2])
RMul(x, y) == Rat(x[1] * y[1], x[2] * y[2])
\* y # 0
RDiv(x, y) == Rat(x[1] * y[2], x[2] * y[1])
RLt(x, y) == x[1] * y[2] < y[1] * x[2]
RGt(x, y) == RLt(y, x)
RIsInteger(x) == x[2] = 1

\* floor and ceiling of a rational (np.ceil)
RFloor(x) == x[1] \div x[2]
RCeil(x) == -((-x[1]) \div x[2])

-----------------------------------------------------------------------------
(* Big naturals: little-endian sequences of base-10^4 limbs, <<>> is 0 *)

BASE == 10 ^ 4

RECURSIVE BigNorm(_)
BigNorm(x) ==
  IF x = <<>> THEN x
  ELSE IF x[Len(x)] = 0 THEN BigNorm(SubSeq(x, 1, Len(x) - 1)) ELSE x

RECURSIVE BigFromInt(_)
BigFromInt(n) == IF n = 0 THEN <<>> ELSE <<n % BASE>> \o BigFromInt(n \div BASE)

RECURSIVE BigMulSmallC(_, _, _)
BigMulSmallC(x, m, c) ==
  IF x = <<>> THEN BigFromInt(c)
  ELSE LET t == x[1] * m + c
       IN <<t % BASE>> \o BigMulSmallC(Tail(x), m, t \div BASE)

\* x * m for a limb m < BASE
BigMulSmall(x, m) == IF m = 0 THEN <<>> ELSE BigMulSmallC(x, m, 0)

RECURSIVE BigAddC(_, _, _)
BigAddC(x, y, c) ==
  IF x = <<>> /\ y = <<>> THEN (IF c = 0 THEN <<>> ELSE <<c>>)
  ELSE LET a == IF x = <<>> THEN 0 ELSE x[1]
           b == IF y = <<>> THEN 0 ELSE y[1]
           t == a + b + c
       IN <<t % BASE>> \o BigAddC(IF x = <<>> THEN x ELSE Tail(x),
                                  IF y = <<>> THEN y ELSE Tail(y), t \div BASE)

BigAdd(x, y) == BigAddC(x, y, 0)

RECURSIVE BigSubB(_, _, _)
BigSubB(x, y, b) ==
  IF x = <<>> THEN <<>>
  ELSE LET s == IF y = <<>> THEN 0 ELSE y[1]
           t == x[1] - s - b
       IN <<IF t < 0 THEN t + BASE ELSE t>>
          \o BigSubB(Tail(x), IF y = <<>> THEN y ELSE Tail(y), IF t < 0 THEN 1 ELSE 0)

\* x - y for x >= y
BigSub(x, y) == BigNorm(BigSubB(x, y, 0))

RECURSIVE BigCmpAt(_, _, _)
BigCmpAt(x, y, i) ==
  IF i = 0 THEN 0
  ELSE IF x[i] < y[i] THEN -1
  ELSE IF x[i] > y[i] THEN 1
  ELSE BigCmpAt(x, y, i - 1)

\* -1, 0, 1 as x <, =, > y
BigCmp(x, y) ==
  IF Len(x) < Len(y) THEN -1
  ELSE IF Len(x) > Len(y) THEN 1
  ELSE BigCmpAt(x, y, Len(x))

RECURSIVE BigMul(_, _)
BigMul(x, y) ==
  IF y = <<>> \/ x = <<>> THEN <<>>
  ELSE BigAdd(BigMulSmall(x, y[1]),
              LET r == BigMul(x, Tail(y)) IN IF r = <<>> THEN r ELSE <<0>> \o r)

RECURSIVE BigPow(_, _)
BigPow(x, n) == IF n = 0 THEN <<1>> ELSE BigMul(BigPow(x, n - 1), x)

\* <<floor(N / D), N mod D>> from h = <<floor(N / 2D), N mod 2D>>
BigHalve(h, D) ==
  IF BigCmp(h[2], D) >= 0 THEN <<2 * h[1] + 1, BigSub(h[2], D)>>
  ELSE <<2 * h[1], h[2]>>

\* <<floor(N / D), N mod D>> for D > 0, by doubling D; the quotient an integer
RECURSIVE BigDivMod(_, _)
BigDivMod(N, D) ==
  IF BigCmp(N, D) < 0 THEN <<0, N>>
  ELSE BigHalve(BigDivMod(N, BigAdd(D, D)), D)

\* the integer nearest to q + r/D, halves to the even one; c compares 2r with D
HalfEven(q, c) ==
  IF c < 0 THEN q
  ELSE IF c > 0 THEN q + 1
  ELSE IF q % 2 = 0 THEN q ELSE q + 1

BigNearest(h, D) == HalfEven(h[1], BigCmp(BigMulSmall(h[2], 2), D))

\* N / D rounded to the nearest integer, halves to the even one (np.rint)
BigRint(N, D) == BigNearest(BigDivMod(N, D), D)

\* n / d rounded to the nearest integer, halves to the even one, for d > 0
Rint(n, d) == HalfEven(n \div d, IF 2 * (n % d) < d THEN -1 ELSE IF 2 * (n % d) > d THEN 1 ELSE 0)

-----------------------------------------------------------------------------
(* Python values: what a call returns or raises *)

\* a str
Str(s) == [kind |-> "str", s |-> s]
\* a tuple or a number
Ok(v) == [kind |-> "ok", val |-> v]
\* an exception that leaves the function
Raise(e) == [kind |-> "raise", exc |-> e]

\* 0/0, what numpy gives for a division of zero by zero
NaN == <<0, 0>>
IsNaN(x) == x[2] = 0

\* the failure messages of the library, and their characters
MsgDimensions == "Incorrect argument dimensions"
MsgPeriod == "Incorrect period length description"
MsgPrice == "Incorrect price description"
MsgDateOrder == "Settlement cannot come after maturity of bond!"
MsgDateCalc == "Incorrect description for timing calculation"
MsgTiming == "Incorrect timing calculated"

Messages == {MsgDimensions, MsgPeriod, MsgPrice, MsgDateOrder, MsgDateCalc, MsgTiming}

\* the first three characters of a message: all the library ever indexes
Chars(s) ==
  IF s = MsgDateOrder THEN <<"S", "e", "t">> ELSE <<"I", "n", "c">>

\* s[k] of a str (k = 0, 1, 2)
StrIndex(s, k) == Chars(s)[k + 1]

\* str.lower() on the strings the model passes
Lower(s) ==
  CASE s = "Annual" -> "annual"
    [] s = "SemiAnnual" -> "semiannual"
    [] s = "Dirty" -> "dirty"
    [] s = "ACTUAL" -> "actual"
    [] OTHER -> s

-----------------------------------------------------------------------------
(* numpy arrays: nd = 0 for a scalar (0-d), 1 for a 1-d array; v the elements *)

Scalar(x) == [nd |-> 0, v |-> <<x>>]
Vec(s) == [nd |-> 1, v |-> s]
Size(a) == Len(a.v)
\* the elements f[1], ..., f[n] of an array
Elements(n, f) == SubSeq(f, 1, n)
Max(a, b) == IF a > b THEN a ELSE b

\* the element of a that meets element i of the broadcast result
At(a, i) == IF Size(a) = 1 THEN a.v[1] ELSE a.v[i]

\* can the shapes be broadcast together
Broadcastable(a, b) == Size(a) = Size(b) \/ Size(a) = 1 \/ Size(b) = 1

\* what a function did: the value it returned or the exception it raised,
\* and the lines it printed before that
Did(r, lines) == [ret |-> r, console |-> lines]

\* '{:.2f}'.format(a): ndarray.__format__ takes a format spec for a 0-d array only
FormatRaises(a) == a.nd # 0

-----------------------------------------------------------------------------
(* pricing.py: cash flows and the price on a coupon date *)

\* np.where(rate > 1, np.divide(rate, 100), rate)
AdjustRateFormat(r) == IF RGt(r, RInt(1)) THEN RDiv(r, RInt(100)) ELSE r

\* payments per year of a validated len_time
PeriodsPerYear(len_time) == IF Lower(len_time) = "semiannual" THEN 2 ELSE 1

\* the per-period rate the functions use for an annual rate argument
RatePerPeriod(rate, period) == AdjustRateFormat(RDiv(rate, RInt(period)))

\* bond_len * period, elementwise
Periods(bond_len, period) ==
  [nd |-> bond_len.nd,
   v |-> Elements(Size(bond_len),
                  [i \in 1..Size(bond_len) |-> RMul(bond_len.v[i], RInt(period))])]

\* the per-period rates of an array of annual rates
Rates(rate, period) ==
  [nd |-> rate.nd,
   v |-> Elements(Size(rate), [i \in 1..Size(rate) |-> RatePerPeriod(rate.v[i], period)])]

\* np.multiply(par_val, coupon_per) of arrays of equal length
CouponPay(par_val, coupon) ==
  [nd |-> Max(par_val.nd, coupon.nd),
   v |-> Elements(Size(par_val),
                  [i \in 1..Size(par_val) |-> RMul(par_val.v[i], coupon.v[i])])]

\* the prints of bond_cash_flow_calc and its return value
CashFlowReport(coupon_pay, par_val, periods, details) ==
  IF ~details THEN Did(Ok(<<coupon_pay, par_val, periods>>), <<>>)
  ELSE IF Size(periods) = 1 /\ FormatRaises(coupon_pay) THEN Did(Raise("TypeError"), <<>>)
  ELSE IF Size(periods) = 1 /\ FormatRaises(par_val)
       THEN Did(Raise("TypeError"), <<"Coupon Rate">>)
  ELSE Did(Ok(<<coupon_pay, par_val, periods>>), <<"Coupon Rate", "Maturity Value">>)

bond_cash_flow_calc(bond_len, coupon_per, par_val, len_time, details) ==
  IF Size(bond_len) # Size(coupon_per) \/ Size(coupon_per) # Size(par_val)
  THEN Did(Str(MsgDimensions), <<>>)
  ELSE IF Lower(len_time) \notin {"semiannual", "annual"}
  THEN Did(Str(MsgPeriod), <<>>)
  ELSE CashFlowReport(CouponPay(par_val, Rates(coupon_per, PeriodsPerYear(len_time))),
                      par_val, Periods(bond_len, PeriodsPerYear(len_time)), details)

\* round(100 * coupon_pay * (1 - Q/P) / y) / 100 for P = (1+y)^n and Q = 1 as
\* fractions over the n-th power of the denominator of y
Annuity(coupon_pay, y, P, Q) ==
  Rat(BigRint(BigMul(BigMul(BigFromInt(100 * coupon_pay[1]), BigFromInt(y[2])),
                     BigSub(P, Q)),
              BigMul(BigMul(BigFromInt(coupon_pay[2]), BigFromInt(y[1])), P)),
      100)

\* round(coupon_pay * (1 - 1/(1+y)^n) / y, 2); at y = 0 it is 0/0
CouponPayPrice(coupon_pay, y, n) ==
  IF y[1] = 0 THEN NaN
  ELSE Annuity(coupon_pay, y, BigPow(BigFromInt(y[1] + y[2]), n),
               BigPow(BigFromInt(y[2]), n))

\* round(par_val / (1+y)^n, 2)
ParValPrice(par_val, y, n) ==
  Rat(BigRint(BigMul(BigFromInt(100 * par_val[1]), BigPow(BigFromInt(y[2]), n)),
              BigMul(BigFromInt(par_val[2]), BigPow(BigFromInt(y[1] + y[2]), n))),
      100)

\* round(coupon_pay_price + par_val_price, 2)
BondPrice(coupon_pay_price, par_val_price) ==
  IF IsNaN(coupon_pay_price) THEN NaN ELSE RAdd(coupon_pay_price, par_val_price)

\* par_val = np.where(call_val > 0, call_val, par_val)
Redeem(par_val, call_val) ==
  [nd |-> par_val.nd,
   v |-> Elements(Size(par_val), [i \in 1..Size(par_val) |->
                    IF RGt(call_val, RInt(0)) THEN call_val ELSE par_val.v[i]])]

\* the number of dimensions of the broadcast of the four arrays
Dims(a, b, c, d) == Max(Max(a.nd, b.nd), Max(c.nd, d.nd))

CouponPayPrices(coupon_pay, yield, periods, dims) ==
  [nd |-> dims,
   v |-> Elements(Max(Size(periods), Size(yield)),
                  [i \in 1..Max(Size(periods), Size(yield)) |->
                    CouponPayPrice(At(coupon_pay, i), At(yield, i), At(periods, i)[1])])]

ParValPrices(redeem, yield, periods, dims) ==
  [nd |-> dims,
   v |-> Elements(Max(Size(periods), Size(yield)),
                  [i \in 1..Max(Size(periods), Size(yield)) |->
                    ParValPrice(At(redeem, i), At(yield, i), At(periods, i)[1])])]

BondPrices(coupon_pay_price, par_val_price) ==
  [nd |-> coupon_pay_price.nd,
   v |-> Elements(Size(coupon_pay_price),
                  [i \in 1..Size(coupon_pay_price) |->
                    BondPrice(coupon_pay_price.v[i], par_val_price.v[i])])]

\* the prints of bond_price_calc and its return value
PriceReport(coupon_pay_price, par_val_price, bond_price, single, details, console) ==
  IF ~details THEN Did(Ok(<<coupon_pay_price, par_val_price, bond_price>>), console)
  ELSE IF single /\ FormatRaises(coupon_pay_price) THEN Did(Raise("TypeError"), console)
  ELSE Did(Ok(<<coupon_pay_price, par_val_price, bond_price>>),
           console \o <<"Present Value of Coupon Payment",
                        "Present Value of Par/Maturity Value",
                        "Present Value of Bond">>)

PriceSum(coupon_pay_price, par_val_price, single, details, console) ==
  PriceReport(coupon_pay_price, par_val_price, BondPrices(coupon_pay_price, par_val_price),
              single, details, console)

\* the pricing of the cash flows flow = bond_cash_flow_calc(...) returned
PriceFlows(flow, redeem, yield, periods, details) ==
  IF flow.ret.kind = "raise" THEN flow
  ELSE IF ~Broadcastable(periods, yield) THEN Did(Raise("ValueError"), flow.console)
  ELSE PriceSum(CouponPayPrices(flow.ret.val[1], yield, periods,
                                Dims(flow.ret.val[1], redeem, yield, periods)),
                ParValPrices(redeem, yield, periods,
                             Dims(flow.ret.val[1], redeem, yield, periods)),
                Size(periods) = 1 /\ Size(yield) = 1, details, flow.console)

bond_price_calc(bond_len, coupon_per, par_val, req_yield_per, call_val, len_time, details) ==
  IF Size(bond_len) # Size(coupon_per) \/ Size(coupon_per) # Size(par_val)
  THEN Did(Str(MsgDimensions), <<>>)
  ELSE IF Lower(len_time) \notin {"semiannual", "annual"}
  THEN Did(Str(MsgPeriod), <<>>)
  ELSE PriceFlows(bond_cash_flow_calc(Periods(bond_len, PeriodsPerYear(len_time)),
                                      Rates(coupon_per, PeriodsPerYear(len_time)),
                                      par_val, "annual", details),
                  Redeem(par_val, call_val),
                  Rates(req_yield_per, PeriodsPerYear(len_time)),
                  Periods(bond_len, PeriodsPerYear(len_time)), details)

-----------------------------------------------------------------------------
(* Dates: np.datetime64 values with day precision, as [y, m, d] *)

IsLeap(y) == y % 4 = 0 /\ (y % 100 # 0 \/ y % 400 = 0)

DaysInMonth(y, m) ==
  IF m = 2 THEN (IF IsLeap(y) THEN 29 ELSE 28)
  ELSE IF m \in {4, 6, 9, 11} THEN 30 ELSE 31

\* days from 2000-01-01 to the date: the value of a datetime64[D] up to a shift
DayNum(date) ==
  365 * (date.y - 2000) + Cardinality({k \in 2000..(date.y - 1) : IsLeap(k)})
  + Cardinality({<<k, j>> \in (1..(date.m - 1)) \X (1..31) : j <= DaysInMonth(date.y, k)})
  + (date.d - 1)

\* np.datetime64(date, 'M'): the value of a datetime64[M]
MonthNum(date) == 12 * date.y + (date.m - 1)

\* np.datetime64(month, 'D'): the first day of the month
MonthStart(month) == [y |-> month \div 12, m |-> (month % 12) + 1, d |-> 1]

\* timedelta64[D] -> timedelta64[M] as astype casts it: days * 4800 / 146097,
\* rounded down (numpy's average month over the 400-year cycle)
DaysToMonths(days) == (days * 1600) \div 48699

actual_time_ratio_calc(nd1, sd2, period) ==
  LET numer == DayNum(nd1) - DayNum(sd2)
      denom == DayNum(nd1) - DayNum(MonthStart(MonthNum(nd1) - 6))
  IN <<Rat(numer, denom), Rat(denom - numer, denom)>>

thirtysixty_time_ratio_calc(sd1, dr2, td3, period) ==
  LET days_passed == DayNum(sd1) - (DayNum(MonthStart(MonthNum(sd1))) - 1)
      days_remaining == IF dr2 + days_passed > 30 THEN 30 - days_passed ELSE dr2
      numer == (td3 - 1) * 30 + days_remaining + 1
      denom == 30 * period
  IN <<Rat(numer, denom), Rat(denom - numer, denom)>>

\* <<next pay date, days_remaining, time_diff>>
next_pay_date_calc(sd1, md2, period) ==
  LET days_remaining == (DayNum(MonthStart(MonthNum(sd1) + 1)) - 1) - DayNum(sd1)
      months == DaysToMonths(DayNum(md2) - DayNum(sd1)) % period
      time_diff == IF days_remaining > 0 THEN months + 1 ELSE months
  IN <<MonthStart(MonthNum(sd1) + time_diff), days_remaining, time_diff>>

\* np.add(np.where(date_calc == '3060', r3060, 0.0), np.where(date_calc == 'actual',
\* ractual, 0.0)): date_calc is compared as it was passed
RatioOf(date_calc, r3060, ractual) ==
  RAdd(IF date_calc = "3060" THEN r3060 ELSE RInt(0),
       IF date_calc = "actual" THEN ractual ELSE RInt(0))

\* the secondary fail safe and the return value
TimeRatioReport(time_ratio, ai_ratio) ==
  IF time_ratio = RInt(0) THEN Str(MsgTiming) ELSE Ok(<<time_ratio, ai_ratio>>)

TimeRatios(date_calc, r3060, ractual) ==
  TimeRatioReport(RatioOf(date_calc, r3060[1], ractual[1]),
                  RatioOf(date_calc, r3060[2], ractual[2]))

\* next = <<next_pay_date, days_remaining, time_diff>>
TimeRatioAt(next, sett_date, months, date_calc) ==
  TimeRatios(date_calc, thirtysixty_time_ratio_calc(sett_date, next[2], next[3], months),
             actual_time_ratio_calc(next[1], sett_date, months))

\* period is the number of payments per year (1 or 2)
time_ratio_calc(mat_date, sett_date, period, date_calc, len_time) ==
  IF DayNum(mat_date) <= DayNum(sett_date) THEN Str(MsgDateOrder)
  ELSE IF Lower(date_calc) \notin {"3060", "actual"} THEN Str(MsgDateCalc)
  ELSE TimeRatioAt(next_pay_date_calc(sett_date, mat_date, 12 \div period), sett_date,
                   12 \div period, date_calc)

-----------------------------------------------------------------------------
(* pricing.py: the price on a settlement date *)

\* np.sum(bond_price): the sum of amt / (1 + rate)^exp over the terms, less
\* what was taken off the first of them
DiscountedSum(terms, rate, less) == [terms |-> terms, rate |-> rate, less |-> less]

\* np.full(n, coupon_pay) with par_val added to the last, each at its period
\* k - 1 + time_ratio
Terms(n, coupon_pay, par_val, time_ratio) ==
  [k \in 1..n |->
    [amt |-> IF k = n THEN RAdd(coupon_pay, par_val) ELSE coupon_pay,
     exp |-> RAdd(RInt(k - 1), time_ratio)]]

\* the prints of bond_price_calc_sett after the cash flows
SettConsole(price, details) ==
  IF details
  THEN <<"Accrued Interest", "Period, Coupon Payment Scheduled, Bond Price",
         IF Lower(price) = "clean" THEN "Present Clean Value of Bond"
         ELSE "Present Dirty Value of Bond">>
  ELSE <<>>

\* the price from the n cash flows of coupon_pay
SettPrice(n, coupon_pay, par_val, yield, time_ratio, ai_ratio, price, details, console) ==
  Did(Ok(DiscountedSum(Terms(n, coupon_pay, par_val, time_ratio), yield,
                       IF Lower(price) = "clean" THEN RMul(coupon_pay, ai_ratio)
                       ELSE RInt(0))),
      console \o SettConsole(price, details))

\* flow = bond_cash_flow_calc(...) returned, n the number of cash flows
SettFlows(flow, n, par_val, yield, time_ratio, ai_ratio, price, details) ==
  IF flow.ret.kind = "raise" THEN flow
  \* coupon_pay[0] of an empty schedule
  ELSE IF n = 0 THEN Did(Raise("IndexError"), flow.console)
  \* coupon_pay is the first character of the message: np.multiply('I', ai_ratio)
  ELSE IF flow.ret.kind = "str" THEN Did(Raise("TypeError"), flow.console)
  ELSE SettPrice(n, flow.ret.val[1].v[1], par_val.v[1], yield, time_ratio, ai_ratio,
                 price, details, flow.console)

\* ratio = time_ratio_calc(...) returned, count the periods to maturity
SettRatio(ratio, count, coupon, par_val, yield, price, details) ==
  \* time_ratio = ratio[0]; a str is returned as it stands
  IF ratio.kind = "str" THEN Did(Str(StrIndex(ratio.s, 0)), <<>>)
  ELSE SettFlows(bond_cash_flow_calc(Scalar(RInt(count)), coupon, par_val, "annual", details),
                 IF RIsInteger(ratio.val[1]) THEN count + 1 ELSE count,
                 par_val, yield, ratio.val[1], ratio.val[2], price, details)

\* np.ceil of the months from settlement to maturity over the months of a period
PeriodCount(mat_date, sett_date, period) ==
  RCeil(Rat(DaysToMonths(DayNum(mat_date) - DayNum(sett_date)), 12 \div period))

\* bond_len is <<maturity, settlement>>; coupon_per, par_val and req_yield_per
\* hold one element each
bond_price_calc_sett(bond_len, coupon_per, par_val, req_yield_per, price, date_calc, len_time, details) ==
  IF Lower(len_time) \notin {"semiannual", "annual"} THEN Did(Str(MsgPeriod), <<>>)
  ELSE IF Lower(price) \notin {"clean", "dirty"} THEN Did(Str(MsgPrice), <<>>)
  ELSE SettRatio(time_ratio_calc(bond_len[1], bond_len[2], PeriodsPerYear(len_time),
                                 date_calc, len_time),
                 PeriodCount(bond_len[1], bond_len[2], PeriodsPerYear(len_time)),
                 Rates(coupon_per, PeriodsPerYear(len_time)), par_val,
                 RatePerPeriod(req_yield_per.v[1], PeriodsPerYear(len_time)),
                 price, details)

-----------------------------------------------------------------------------
(* yield.py: yield to maturity by search over a grid of yields *)

\* np.arange(.01, 100, .01), its first GridLen points
req_yield_pers == Elements(GridLen, [i \in 1..GridLen |-> Rat(i, 100)])

\* np.round(x, 2) of a number
Round2(x) == Rat(Rint(100 * x[1], x[2]), 100)

\* ndarray.copy(): a fresh array of the same elements
Copy(a) == SubSeq(a, 1, Len(a))

\* ndarray.sort(): ascending
Sort(a) == SortSeq(a, RLt)

\* np.round(a, 2) of an array, elementwise
RoundAll(a) == Elements(Len(a), [i \in 1..Len(a) |-> Round2(a[i])])

\* np.searchsorted(a, v): binary search for the leftmost insertion point of v
\* in the sorted a, an index from 0 to len(a); lo and hi are 0-based
RECURSIVE SearchSortedIn(_, _, _, _)
SearchSortedIn(a, v, lo, hi) ==
  IF lo >= hi THEN lo
  ELSE LET mid == lo + (hi - lo) \div 2
       IN IF RLt(a[mid + 1], v) THEN SearchSortedIn(a, v, mid + 1, hi)
          ELSE SearchSortedIn(a, v, lo, mid)

\* the rightmost insertion point instead: past the elements equal to v
searchsorted_right(a, v) == Cardinality({i \in 1..Len(a) : ~RLt(v, a[i])})

searchsorted(a, v) == SearchSortedIn(a, v, 0, Len(a))

\* np.where(cond)[0]: the indices (1-based here) where cond holds, ascending
Where(cond) == {i \in 1..Len(cond) : cond[i]}

SetMin(S) == CHOOSE x \in S : \A z \in S : x <= z

\* the number of dimensions of np.where(cond)[0], an index array: always one
WhereDims == 1

\* the yield looked up for the grid prices bond_prices and the price bond_price
YieldLookup(bond_prices, bond_price, details) ==
  \* bond_index.shape has WhereDims entries, so shape[1] raises IndexError and
  \* the except branch runs whatever was matched
  IF WhereDims >= 2
  THEN LET exact == Where(Elements(Len(bond_prices),
                                   [i \in 1..Len(bond_prices) |->
                                     Round2(bond_prices[i]) = Round2(bond_price)]))
       IN Did(Ok(req_yield_pers[SetMin(exact)]),
              IF details THEN <<"Yield-to-Maturity Lookup">> ELSE <<>>)
  ELSE LET ordered_bond_prices == Sort(Copy(bond_prices))
           at == searchsorted(RoundAll(ordered_bond_prices), Round2(bond_price))
       IN \* ordered_bond_prices[bond_index] past the end
          IF at >= Len(ordered_bond_prices) THEN Did(Raise("IndexError"), <<>>)
          ELSE LET found == ordered_bond_prices[at + 1]
                   bond_index == Where(Elements(Len(bond_prices),
                                            [i \in 1..Len(bond_prices) |->
                                              bond_prices[i] = found]))
               IN Did(Ok(req_yield_pers[SetMin(bond_index)]),
                      IF details THEN <<"Yield-to-Maturity Lookup">> ELSE <<>>)

\* priced = price.bond_price_calc(...) returned
YieldOf(priced, bond_price, details) ==
  IF priced.ret.kind = "raise" THEN priced
  \* bond_prices is the character s[2] of the message: np.round raises inside
  \* the try, and in the except branch a str has no copy()
  ELSE IF priced.ret.kind = "str" THEN Did(Raise("AttributeError"), <<>>)
  ELSE YieldLookup(priced.ret.val[3].v, bond_price, details)

bond_yield_maturity_calc(bond_len, coupon_per, bond_price, par_val, call_val, len_time, details) ==
  YieldOf(bond_price_calc(bond_len, coupon_per, par_val, Vec(req_yield_pers), call_val,
                          len_time, FALSE),
          bond_price, details)

-----------------------------------------------------------------------------
(* The arguments the model calls the library with *)

Shapes == {"scalar", "one", "two"}

\* the number x as a scalar, as a one-element array or as a two-element array
Shaped(shape, x) ==
  CASE shape = "scalar" -> Scalar(x)
    [] shape = "one" -> Vec(<<x>>)
    [] shape = "two" -> Vec(<<x, x>>)

\* shapes of <<bond_len, coupon_per, par_val>>: of equal length, of one element
\* each with some of them arrays, and of differing lengths
TermShapes ==
  {<<"scalar", "scalar", "scalar">>, <<"one", "one", "one">>, <<"two", "two", "two">>,
   <<"one", "scalar", "scalar">>, <<"scalar", "one", "scalar">>,
   <<"two", "one", "two">>}

Tenors == {RInt(t) : t \in 1..MaxTenor}
\* 5% and 100% as fractions, 1.5%, 5% and 150% as percentages
CouponRates == {Rat(5, 100), RInt(1), Rat(3, 2), RInt(5), RInt(150)}
\* 0, 6% as a fraction, 1.5% and 6% as percentages
YieldRates == {RInt(0), Rat(6, 100), Rat(3, 2), RInt(6)}
ParValues == {RInt(1000)}
CallValues == {RInt(0), RInt(1050)}
LenTimes == {"annual", "semiannual", "Annual", "monthly"}
PriceBases == {"clean", "dirty", "gross"}
DateCalcs == {"3060", "actual", "ACTUAL", "30/360"}

Years == 2020..(2020 + YearSpan - 1)
Months == {1, 2, 3, 7}
Dates ==
  {[y |-> y, m |-> m, d |-> d] : y \in Years, m \in Months, d \in {1, 15}}
  \cup {[y |-> y, m |-> m, d |-> DaysInMonth(y, m)] : y \in Years, m \in Months}

-----------------------------------------------------------------------------
(* The state: the last call and what it did *)

VARIABLES fn, args, out, console

vars == <<fn, args, out, console>>

Init ==
  /\ fn = "none"
  /\ args = [details |-> FALSE]
  /\ out = [kind |-> "none"]
  /\ console = <<>>

\* the caller is done with the result: the library keeps nothing between calls
Return ==
  /\ fn # "none"
  /\ fn' = "none"
  /\ args' = [details |-> FALSE]
  /\ out' = [kind |-> "none"]
  /\ console' = <<>>

Build ==
  /\ fn = "none"
  /\ \E sh \in TermShapes, t \in Tenors, c \in CouponRates, p \in ParValues,
     len_time \in LenTimes, details \in BOOLEAN :
    LET a == [bond_len |-> Shaped(sh[1], t), coupon_per |-> Shaped(sh[2], c),
              par_val |-> Shaped(sh[3], p), len_time |-> len_time, details |-> details]
    IN \E did \in {bond_cash_flow_calc(a.bond_len, a.coupon_per, a.par_val, a.len_time,
                                        a.details)} :
         /\ fn' = "bond_cash_flow_calc"
         /\ args' = a
         /\ out' = did.ret
         /\ console' = did.console

PriceAtParDate ==
  /\ fn = "none"
  /\ \E sh \in TermShapes, t \in Tenors, c \in CouponRates, p \in ParValues,
     ysh \in {"scalar", "one"}, y \in YieldRates, call_val \in CallValues,
     len_time \in LenTimes \ {"Annual"}, details \in BOOLEAN :
    LET a == [bond_len |-> Shaped(sh[1], t), coupon_per |-> Shaped(sh[2], c),
              par_val |-> Shaped(sh[3], p), req_yield_per |-> Shaped(ysh, y),
              call_val |-> call_val, len_time |-> len_time, details |-> details]
    IN \E did \in {bond_price_calc(a.bond_len, a.coupon_per, a.par_val, a.req_yield_per,
                               a.call_val, a.len_time, a.details)} :
         /\ fn' = "bond_price_calc"
         /\ args' = a
         /\ out' = did.ret
         /\ console' = did.console

TimeRatio ==
  /\ fn = "none"
  /\ \E mat_date \in Dates, sett_date \in Dates, period \in {1, 2}, date_calc \in DateCalcs :
    LET a == [mat_date |-> mat_date, sett_date |-> sett_date, period |-> period,
              date_calc |-> date_calc, details |-> FALSE]
    IN \E did \in {Did(time_ratio_calc(mat_date, sett_date, period, date_calc,
                                        "semiannual"), <<>>)} :
         /\ fn' = "time_ratio_calc"
         /\ args' = a
         /\ out' = did.ret
         /\ console' = did.console

PriceAtSettlement ==
  /\ fn = "none"
  /\ \E mat_date \in Dates, sett_date \in Dates,
     c \in {Scalar(Rat(5, 100)), Vec(<<Rat(5, 100)>>), Scalar(Rat(3, 2))},
     p \in ParValues, y \in {Rat(6, 100)}, price \in PriceBases,
     date_calc \in DateCalcs \ {"ACTUAL"}, len_time \in LenTimes \ {"Annual"},
     details \in BOOLEAN :
    LET a == [bond_len |-> <<mat_date, sett_date>>, coupon_per |-> c,
              par_val |-> Scalar(p), req_yield_per |-> Scalar(y), price |-> price,
              date_calc |-> date_calc, len_time |-> len_time, details |-> details]
    IN \E did \in {bond_price_calc_sett(a.bond_len, a.coupon_per, a.par_val, a.req_yield_per,
                                    a.price, a.date_calc, a.len_time, a.details)} :
         /\ fn' = "bond_price_calc_sett"
         /\ args' = a
         /\ out' = did.ret
         /\ console' = did.console

\* observed prices below, inside and above the prices of the grid, for a par
\* value of 1000 and for one of 1
ObservedPrices ==
  {Rat(29, 100), RInt(200), RInt(600), RInt(1000), Rat(103960, 100), Rat(1039604, 1000),
   RInt(1100)}

SolveYtm ==
  /\ fn = "none"
  /\ \E sh \in {<<"scalar", "scalar", "scalar">>, <<"one", "one", "one">>,
                 <<"two", "two", "two">>, <<"two", "one", "two">>},
        t \in Tenors, bond_price \in ObservedPrices, p \in {RInt(1000), RInt(1)},
        len_time \in LenTimes \ {"Annual"}, details \in BOOLEAN :
       LET a == [bond_len |-> Shaped(sh[1], t), coupon_per |-> Shaped(sh[2], Rat(5, 100)),
                 bond_price |-> bond_price, par_val |-> Shaped(sh[3], p),
                 call_val |-> RInt(0), len_time |-> len_time, details |-> details]
       IN \E did \in {bond_yield_maturity_calc(a.bond_len, a.coupon_per, a.bond_price,
                                               a.par_val, a.call_val, a.len_time,
                                               a.details)} :
            /\ fn' = "bond_yield_maturity_calc"
            /\ args' = a
            /\ out' = did.ret
            /\ console' = did.console

\* yields of the grid as fractions: 1%, 6%, 99%, 1.01%, 1.04%
GridYields == {Rat(1, 100), Rat(6, 100), Rat(99, 100), Rat(101, 10000), Rat(104, 10000)}

\* the round trip: price the bond at the yield req_yield_per, then look up the
\* yield to maturity of that price
RoundTrip ==
  /\ fn = "none"
  /\ \E t \in Tenors, y \in GridYields, len_time \in {"annual", "semiannual"} :
       \E priced \in {bond_price_calc(Scalar(t), Scalar(Rat(5, 100)), Scalar(RInt(1000)),
                                      Scalar(y), RInt(0), len_time, FALSE)} :
         LET a == [bond_len |-> Scalar(t), coupon_per |-> Scalar(Rat(5, 100)),
                   bond_price |-> priced.ret.val[3].v[1], par_val |-> Scalar(RInt(1000)),
                   call_val |-> RInt(0), len_time |-> len_time, details |-> FALSE,
                   req_yield_per |-> y]
         IN \E did \in {bond_yield_maturity_calc(a.bond_len, a.coupon_per, a.bond_price,
                                                 a.par_val, a.call_val, a.len_time,
                                                 a.details)} :
              /\ fn' = "round_trip"
              /\ args' = a
              /\ out' = did.ret
              /\ console' = did.console

NextPricing == Build \/ PriceAtParDate \/ TimeRatio \/ PriceAtSettlement \/ Return

NextYtm == SolveYtm \/ RoundTrip \/ Return

Next == NextPricing \/ NextYtm

\* the pricing functions alone
SpecPricing == Init /\ [][NextPricing]_vars

\* the yield solver alone
SpecYtm == Init /\ [][NextYtm]_vars

\* the whole library
Spec == Init /\ [][Next]_vars

-----------------------------------------------------------------------------
(* The claims, each over the call the state holds *)

\* the prices of the grid for the terms of the call: yield.py computes them first
bond_prices ==
  bond_price_calc(args.bond_len, args.coupon_per, args.par_val, Vec(req_yield_pers),
                  args.call_val, args.len_time, FALSE).ret

\* a call of the solver whose terms pass the validation and broadcast with the grid
Solved == fn \in {"bond_yield_maturity_calc", "round_trip"} /\ bond_prices.kind = "ok"

\* C1: the round trip: pricing a bond at a fractional yield y of the grid and
\* solving for the yield of that price returns a yield within 0.0001 of y.
C1_RoundTrip ==
  fn = "round_trip" =>
    /\ out.kind = "ok"
    /\ ~RGt(RSub(out.val, args.req_yield_per), Rat(1, 10000))
    /\ ~RLt(RSub(out.val, args.req_yield_per), Rat(-1, 10000))

\* C2: for valid arguments (settlement before maturity, a recognized day count
\* and frequency) the dirty and the clean price are both returned, they sum the
\* same discounted cash flows, and clean takes the accrued interest, the coupon
\* amount times the accrued ratio, off the first of them while dirty takes nothing.
C2_CleanDirty ==
  (/\ fn = "bond_price_calc_sett"
   /\ DayNum(args.bond_len[2]) < DayNum(args.bond_len[1])
   /\ args.date_calc \in {"3060", "actual"}
   /\ args.len_time \in {"annual", "semiannual"}
   /\ args.price \in {"clean", "dirty"}) =>
    LET dirty == bond_price_calc_sett(args.bond_len, args.coupon_per, args.par_val,
                                      args.req_yield_per, "dirty", args.date_calc,
                                      args.len_time, args.details).ret
        clean == bond_price_calc_sett(args.bond_len, args.coupon_per, args.par_val,
                                      args.req_yield_per, "clean", args.date_calc,
                                      args.len_time, args.details).ret
        coupon_amount == bond_cash_flow_calc(Scalar(RInt(1)), args.coupon_per, args.par_val,
                                             args.len_time, FALSE).ret.val[1].v[1]
        accrued_ratio == time_ratio_calc(args.bond_len[1], args.bond_len[2],
                                         PeriodsPerYear(args.len_time), args.date_calc,
                                         args.len_time).val[2]
    IN /\ dirty.kind = "ok"
       /\ clean.kind = "ok"
       /\ dirty.val.terms = clean.val.terms
       /\ dirty.val.rate = clean.val.rate
       /\ dirty.val.less = RInt(0)
       /\ clean.val.less = RMul(coupon_amount, accrued_ratio)

\* C3: a call whose input breaks a validation rule (arrays of differing length,
\* an unknown frequency, price basis or day count, settlement not before
\* maturity) returns one of the failure messages and raises nothing.
C3_FailuresReturned ==
  (\/ /\ fn \in {"bond_cash_flow_calc", "bond_price_calc", "bond_yield_maturity_calc"}
      /\ \/ Size(args.bond_len) # Size(args.coupon_per)
         \/ Size(args.coupon_per) # Size(args.par_val)
         \/ Lower(args.len_time) \notin {"annual", "semiannual"}
   \/ /\ fn = "bond_price_calc_sett"
      /\ \/ Lower(args.len_time) \notin {"annual", "semiannual"}
         \/ Lower(args.price) \notin {"clean", "dirty"}
         \/ Lower(args.date_calc) \notin {"3060", "actual"}
         \/ DayNum(args.bond_len[1]) <= DayNum(args.bond_len[2])) =>
    /\ out.kind = "str"
    /\ out.s \in Messages

\* C4: when time_ratio_calc fails, bond_price_calc_sett returns exactly the
\* failure value time_ratio_calc produced.
C4_FailurePropagated ==
  (/\ fn = "bond_price_calc_sett"
   /\ Lower(args.len_time) \in {"annual", "semiannual"}
   /\ Lower(args.price) \in {"clean", "dirty"}
   /\ time_ratio_calc(args.bond_len[1], args.bond_len[2], PeriodsPerYear(args.len_time),
                      args.date_calc, args.len_time).kind = "str") =>
    out = time_ratio_calc(args.bond_len[1], args.bond_len[2], PeriodsPerYear(args.len_time),
                          args.date_calc, args.len_time)

\* C5: the cash flows are built from the coupon rate divided by 100 when it is
\* greater than 1 and taken as it is otherwise, then divided by the periods per
\* year: the coupon amount is par value times that rate.
C5_RateNormalization ==
  (fn = "bond_cash_flow_calc" /\ out.kind = "ok") =>
    \A i \in 1..Size(args.coupon_per) :
      LET rate == args.coupon_per.v[i]
          fraction == IF RGt(rate, RInt(1)) THEN RDiv(rate, RInt(100)) ELSE rate
      IN out.val[1].v[i] =
           RMul(args.par_val.v[i], RDiv(fraction, RInt(PeriodsPerYear(args.len_time))))

\* C6: at a yield of 0 bond_price_calc returns the coupon amount times the
\* number of periods as the value of the coupons, and that plus the redemption
\* amount as the price, none of them undefined.
C6_ZeroYield ==
  (/\ fn = "bond_price_calc"
   /\ out.kind = "ok"
   /\ \A j \in 1..Size(args.req_yield_per) : args.req_yield_per.v[j] = RInt(0)) =>
    LET flow == bond_cash_flow_calc(args.bond_len, args.coupon_per, args.par_val,
                                    args.len_time, FALSE).ret.val
    IN \A i \in 1..Size(args.bond_len) :
         /\ ~IsNaN(out.val[1].v[i])
         /\ out.val[1].v[i] = RMul(flow[1].v[i], flow[3].v[i])
         /\ out.val[3].v[i] =
              RAdd(RMul(flow[1].v[i], flow[3].v[i]),
                   IF RGt(args.call_val, RInt(0)) THEN args.call_val ELSE args.par_val.v[i])

\* C7: what a call returns or raises is the same with details on and off.
C7_VerboseNoninterference ==
  /\ fn = "bond_cash_flow_calc" =>
       bond_cash_flow_calc(args.bond_len, args.coupon_per, args.par_val, args.len_time,
                           ~args.details).ret = out
  /\ fn = "bond_price_calc" =>
       bond_price_calc(args.bond_len, args.coupon_per, args.par_val, args.req_yield_per,
                       args.call_val, args.len_time, ~args.details).ret = out
  /\ fn = "bond_price_calc_sett" =>
       bond_price_calc_sett(args.bond_len, args.coupon_per, args.par_val,
                            args.req_yield_per, args.price, args.date_calc, args.len_time,
                            ~args.details).ret = out

\* C8: when grid prices equal the rounded observed price the solver returns the
\* yield at the first such grid index; when none does and the observed price is
\* within the range of the grid prices, it returns the yield at the first grid
\* index whose price is the smallest grid price not less than it.
C8_TieBreak ==
  Solved =>
    LET P == bond_prices.val[3].v
        target == Round2(args.bond_price)
        exact == {i \in 1..Len(P) : Round2(P[i]) = target}
        above == {i \in 1..Len(P) : ~RLt(P[i], target)}
        below == {i \in 1..Len(P) : ~RLt(target, P[i])}
        least == CHOOSE i \in above : \A j \in above : ~RLt(P[j], P[i])
        nearest == {i \in 1..Len(P) : P[i] = P[least]}
    IN /\ exact # {} =>
            out = Ok(req_yield_pers[CHOOSE i \in exact : \A j \in exact : i <= j])
       /\ (exact = {} /\ above # {} /\ below # {}) =>
            out = Ok(req_yield_pers[CHOOSE i \in nearest : \A j \in nearest : i <= j])

\* a solved call where two grid prices or more equal the rounded observed price
C8_TieBreakWitness ==
  /\ Solved
  /\ out.kind = "ok"
  /\ Cardinality({i \in 1..GridLen :
                   Round2(bond_prices.val[3].v[i]) = Round2(args.bond_price)}) >= 2

\* C9: for an observed price above the largest grid price or below the smallest
\* the solver returns the yield at that end of the price range and raises nothing.
C9_OutOfRange ==
  Solved =>
    LET P == bond_prices.val[3].v
        target == Round2(args.bond_price)
        highest == CHOOSE i \in 1..Len(P) :
                     /\ \A j \in 1..Len(P) : ~RLt(P[i], P[j])
                     /\ \A j \in 1..(i - 1) : P[j] # P[i]
        lowest == CHOOSE i \in 1..Len(P) :
                    /\ \A j \in 1..Len(P) : ~RLt(P[j], P[i])
                    /\ \A j \in 1..(i - 1) : P[j] # P[i]
    IN /\ RGt(target, P[highest]) => out = Ok(req_yield_pers[highest])
       /\ RLt(target, P[lowest]) => out = Ok(req_yield_pers[lowest])

\* C10: for settlement before maturity and a recognized day count, a returned
\* pair has 0 < time_ratio <= 1 and accrued_ratio = 1 - time_ratio.
C10_TimeRatioRange ==
  (fn = "time_ratio_calc" /\ out.kind = "ok") =>
    /\ RGt(out.val[1], RInt(0))
    /\ ~RGt(out.val[1], RInt(1))
    /\ out.val[2] = RSub(RInt(1), out.val[1])

\* C11: for valid inputs with a yield that is not 0, what bond_price_calc returns
\* is coupon_pv = round2(coupon_amount * (1 - (1+y)^(-n)) / y), redemption_pv =
\* round2(R * (1+y)^(-n)) and total_pv = round2(coupon_pv + redemption_pv), for
\* the per-period yield y, the period count n, coupon_amount = par_val times the
\* per-period coupon rate and R = call_val when call_val > 0 and par_val
\* otherwise; tenor 1, coupon 5, par 1000, yield 6, annual gives
\* (47.17, 943.40, 990.57).
C11_ParDatePrice ==
  (/\ fn = "bond_price_calc"
   /\ out.kind = "ok"
   /\ \A j \in 1..Size(args.req_yield_per) : args.req_yield_per.v[j] # RInt(0)) =>
    /\ \A i \in 1..Size(out.val[3]) :
         LET period == PeriodsPerYear(args.len_time)
             y == RatePerPeriod(At(args.req_yield_per, i), period)
             n == RMul(At(args.bond_len, i), RInt(period))[1]
             coupon_amount == RMul(At(args.par_val, i),
                                   RatePerPeriod(At(args.coupon_per, i), period))
             R == IF RGt(args.call_val, RInt(0)) THEN args.call_val
                  ELSE At(args.par_val, i)
             coupon_pv == CouponPayPrice(coupon_amount, y, n)
             redemption_pv == ParValPrice(R, y, n)
         IN /\ out.val[1].v[i] = coupon_pv
            /\ out.val[2].v[i] = redemption_pv
            /\ out.val[3].v[i] = Round2(RAdd(coupon_pv, redemption_pv))
    /\ (/\ args.bond_len = Scalar(RInt(1))
        /\ args.coupon_per = Scalar(RInt(5))
        /\ args.par_val = Scalar(RInt(1000))
        /\ args.req_yield_per = Scalar(RInt(6))
        /\ args.call_val = RInt(0)
        /\ args.len_time = "annual") =>
         /\ out.val[1].v = <<Rat(4717, 100)>>
         /\ out.val[2].v = <<Rat(94340, 100)>>
         /\ out.val[3].v = <<Rat(99057, 100)>>

====
